---------------------------- MODULE Spec2Model ----------------------------
(***************************************************************************)
(* Model of the YouTube caption backend: the URL validator and video-id    *)
(* extractor and the caption formatter of caption_service.py, and the      *)
(* POST /api/extract-captions handler of app.py together with the calls    *)
(* extract_captions makes to the transcript library.                       *)
(*                                                                         *)
(* A Python str is a sequence of one-character strings, so that regular    *)
(* expressions, urlparse and the formatter work character by character.    *)
(***************************************************************************)
EXTENDS Integers, Sequences, FiniteSets, TLC

VARIABLES
    pc,            \* position of the operation in progress
    data,          \* get_captions: the request body, as request.get_json() sees it
    url,           \* the URL value under validation / extraction
    video_id,      \* extract_captions: result of extract_video_id
    transcript,    \* extract_captions: the track a lookup returned, or "none"
    calls,         \* the calls made so far to the transcript library and the formatter
    raised,        \* the exceptions raised so far, in order, with where they were raised
    raw_captions,  \* get_captions: what extract_captions returned
    response,      \* get_captions: the (status, body) answered
    caption_data,  \* format_captions: its argument
    result         \* the value returned by validate_youtube_url or format_captions

vars == <<pc, data, url, video_id, transcript, calls, raised, raw_captions,
          response, caption_data, result>>

-----------------------------------------------------------------------------
(* Characters and character classes of Python's re module.                 *)

Lower == {"a","b","c","d","e","f","g","h","i","j","k","l","m",
          "n","o","p","q","r","s","t","u","v","w","x","y","z"}
Upper == {"A","B","C","D","E","F","G","H","I","J","K","L","M",
          "N","O","P","Q","R","S","T","U","V","W","X","Y","Z"}
Digit == {"0","1","2","3","4","5","6","7","8","9"}

\* [\w-] of the two URL patterns
IdChar == Lower \cup Upper \cup Digit \cup {"_", "-"}

\* \s
Whitespace == {" ", "\t", "\n", "\r", "\f"}

\* [.!?] of the sentence split
SentenceEnd == {".", "!", "?"}

-----------------------------------------------------------------------------
(* Python values.  Only the type, the truth value and, for a str, the      *)
(* characters are ever inspected by the code.                              *)

None == [t |-> "None", truthy |-> FALSE, s |-> <<>>]
PyStr(chars) == [t |-> "str", truthy |-> chars # <<>>, s |-> chars]
PyInt(n) == [t |-> "int", truthy |-> n # 0, s |-> <<>>]
PyList(nonempty) == [t |-> "list", truthy |-> nonempty, s |-> <<>>]

\* An exception: its class and str(e)
Exc(type, text) == [type |-> type, text |-> text]

-----------------------------------------------------------------------------
(* Sequence helpers: the str methods the code and its library calls use.   *)

\* s[from:] (from is a count of characters dropped)
Drop(s, n) == SubSeq(s, n + 1, Len(s))
Take(s, n) == SubSeq(s, 1, n)

\* s.startswith(lit, p): lit occurs in s after p characters
HasAt(s, p, lit) ==
    /\ p + Len(lit) <= Len(s)
    /\ \A i \in 1..Len(lit) : s[p + i] = lit[i]

\* lit in s
Contains(s, lit) == \E p \in 0..Len(s) : HasAt(s, p, lit)

\* index (1-based) of the first character of s in set C, 0 when there is none
FindAny(s, C) ==
    IF \E i \in 1..Len(s) : s[i] \in C
    THEN CHOOSE i \in 1..Len(s) : s[i] \in C /\ \A j \in 1..(i - 1) : s[j] \notin C
    ELSE 0

\* s.split(c, 1): <<head, tail>>, or <<s>> when c does not occur
Split1(s, c) ==
    LET i == FindAny(s, {c})
    IN  IF i = 0 THEN <<s>> ELSE <<Take(s, i - 1), Drop(s, i)>>

\* s.split(c)
RECURSIVE SplitAll(_, _)
SplitAll(s, c) ==
    LET i == FindAny(s, {c})
    IN  IF i = 0 THEN <<s>> ELSE <<Take(s, i - 1)>> \o SplitAll(Drop(s, i), c)

\* s.lstrip(c)
RECURSIVE LStrip(_, _)
LStrip(s, c) == IF s # <<>> /\ s[1] = c THEN LStrip(Tail(s), c) ELSE s

\* s.replace(a, b) for single characters
ReplaceChar(s, a, b) == [i \in 1..Len(s) |-> IF s[i] = a THEN b ELSE s[i]]

\* sep.join(parts)
RECURSIVE Join(_, _)
Join(sep, parts) ==
    IF parts = <<>> THEN <<>>
    ELSE IF Len(parts) = 1 THEN parts[1]
    ELSE parts[1] \o sep \o Join(sep, Tail(parts))

-----------------------------------------------------------------------------
(* re.match on the two URL patterns.  A pattern is run as the set of       *)
(* positions (characters consumed) each of its pieces can end at; re.match *)
(* succeeds when the set after the last piece is not empty.                *)

\* a literal
ReLit(s, P, lit) == {p + Len(lit) : p \in {q \in P : HasAt(s, q, lit)}}

\* (lit)?
ReOpt(s, P, lit) == P \cup ReLit(s, P, lit)

\* [C]+
RePlus(s, P, C) ==
    {q \in 1..Len(s) : \E p \in P : p < q /\ \A i \in (p + 1)..q : s[i] \in C}

\* ^https?://(www\.)?
ReHead(s) == ReOpt(s, ReLit(s, ReOpt(s, ReLit(s, {0}, <<"h", "t", "t", "p">>), <<"s">>), <<":", "/", "/">>), <<"w", "w", "w", ".">>)

\* Variant: the watch pattern ended by $, so that nothing may follow the id
MatchWatchPatternAnchored(s) ==
    Len(s) \in RePlus(s, ReLit(s, ReHead(s), <<"y", "o", "u", "t", "u", "b", "e", ".", "c", "o", "m", "/", "w", "a", "t", "c", "h", "?", "v", "=">>), IdChar)

\* ^https?://(www\.)?youtube\.com/watch\?v=[\w-]+
MatchWatchPattern(s) ==
    RePlus(s, ReLit(s, ReHead(s), <<"y", "o", "u", "t", "u", "b", "e", ".", "c", "o", "m", "/", "w", "a", "t", "c", "h", "?", "v", "=">>), IdChar) # {}

\* ^https?://(www\.)?youtu\.be/[\w-]+
MatchShortPattern(s) ==
    RePlus(s, ReLit(s, ReHead(s), <<"y", "o", "u", "t", "u", ".", "b", "e", "/">>), IdChar) # {}

\* validate_youtube_url(url): TRUE, FALSE, or the exception re.match raises on
\* a value that is neither falsy nor a str
TypeErrorMatch == Exc("TypeError", "expected string or bytes-like object")

validate_youtube_url(u) ==
    IF ~u.truthy THEN [ret |-> FALSE, exc |-> None]
    ELSE IF u.t # "str" THEN [ret |-> FALSE, exc |-> TypeErrorMatch]
    ELSE [ret |-> MatchWatchPattern(u.s) \/ MatchShortPattern(u.s), exc |-> None]

-----------------------------------------------------------------------------
(* urlparse and parse_qs, as far as extract_video_id reads their results.  *)

SchemeChars == Lower \cup Upper \cup Digit \cup {"+", "-", "."}

\* urlsplit: the scheme is cut off when the text before the first ':' is a
\* letter followed by scheme characters
AfterScheme(s) ==
    LET i == FindAny(s, {":"})
    IN  IF i > 1 /\ s[1] \in Lower \cup Upper
             /\ \A j \in 1..(i - 1) : s[j] \in SchemeChars
        THEN Drop(s, i) ELSE s

\* urlparse(url): netloc, path and query
urlparse(s) ==
    LET rest    == AfterScheme(s)
        hasLoc  == HasAt(rest, 0, <<"/", "/">>)
        body    == IF hasLoc THEN Drop(rest, 2) ELSE rest
        cut     == FindAny(body, {"/", "?", "#"})
        netloc  == IF ~hasLoc THEN <<>>
                   ELSE IF cut = 0 THEN body ELSE Take(body, cut - 1)
        tail    == IF ~hasLoc THEN body
                   ELSE IF cut = 0 THEN <<>> ELSE Drop(body, cut - 1)
        noFrag  == Split1(tail, "#")[1]
        pq      == Split1(noFrag, "?")
        lastSeg == SplitAll(pq[1], "/")
        params  == FindAny(lastSeg[Len(lastSeg)], {";"})
        path    == IF params = 0 THEN pq[1]
                   ELSE Take(pq[1], Len(pq[1]) - Len(lastSeg[Len(lastSeg)]) + params - 1)
    IN  [netloc |-> netloc, path |-> path,
         query |-> IF Len(pq) = 2 THEN pq[2] ELSE <<>>]

\* parse_qs(query)[key], as the list of its values in order (blank values
\* and pairs without '=' are dropped, '+' decodes to a space)
RECURSIVE QueryValues(_, _)
QueryValues(pairs, key) ==
    IF pairs = <<>> THEN <<>>
    ELSE LET nv == Split1(pairs[1], "=")
         IN  IF Len(nv) = 2 /\ nv[2] # <<>> /\ ReplaceChar(nv[1], "+", " ") = key
             THEN <<ReplaceChar(nv[2], "+", " ")>> \o QueryValues(Tail(pairs), key)
             ELSE QueryValues(Tail(pairs), key)

parse_qs(query, key) == QueryValues(SplitAll(query, "&"), key)

\* extract_video_id(url)
extract_video_id(s) ==
    LET parsed_url == urlparse(s)
    IN  IF Contains(parsed_url.netloc, <<"y", "o", "u", "t", "u", ".", "b", "e">>)
        THEN PyStr(LStrip(parsed_url.path, "/"))
        ELSE IF Contains(parsed_url.netloc, <<"y", "o", "u", "t", "u", "b", "e", ".", "c", "o", "m">>)
                  /\ parse_qs(parsed_url.query, <<"v">>) # <<>>
        THEN PyStr(parse_qs(parsed_url.query, <<"v">>)[1])
        ELSE None

-----------------------------------------------------------------------------
(* format_captions.  A caption segment is [shape, text]: shape says which  *)
(* of segment['text'] and segment.text succeed, text is the value found.   *)

Segment(shape, text) == [shape |-> shape, text |-> text]

\* segment['text'] succeeds (otherwise TypeError or KeyError)
HasKey(seg) == seg.shape \in {"key", "both"}

\* segment.text succeeds (otherwise AttributeError)
HasAttr(seg) == seg.shape \in {"attr", "both"}

\* sentences[i:i+5] of the paragraph loop
PARAGRAPH_SIZE == 5

PLACEHOLDER == <<"E", "r", "r", "o", "r", ":", " ", "U", "n", "a", "b", "l", "e", " ", "t", "o", " ", "p", "r", "o", "c", "e", "s", "s", " ", "c", "a", "p", "t", "i", "o", "n", "s", " ", "f", "r", "o", "m", " ", "t", "h", "i", "s", " ", "v", "i", "d", "e", "o", ".", " ", "P", "l", "e", "a", "s", "e", " ", "t", "r", "y", " ", "a", "n", "o", "t", "h", "e", "r", " ", "v", "i", "d", "e", "o", ".">>

\* re.sub(r'\s+', ' ', text)
RECURSIVE CollapseWhitespace(_)
CollapseWhitespace(s) ==
    IF s = <<>> THEN <<>>
    ELSE IF s[1] \in Whitespace
    THEN LET rest == Tail(s)
             skip == IF \E i \in 1..Len(rest) : rest[i] \notin Whitespace
                     THEN (CHOOSE i \in 1..Len(rest) :
                              rest[i] \notin Whitespace
                              /\ \A j \in 1..(i - 1) : rest[j] \in Whitespace) - 1
                     ELSE Len(rest)
         IN  <<" ">> \o CollapseWhitespace(Drop(rest, skip))
    ELSE <<s[1]>> \o CollapseWhitespace(Tail(s))

\* re.sub(r'\.(?=[A-Z])', '. ', text)
RECURSIVE FixSentenceBreaks(_)
FixSentenceBreaks(s) ==
    IF s = <<>> THEN <<>>
    ELSE IF s[1] = "." /\ Len(s) > 1 /\ s[2] \in Upper
    THEN <<".", " ">> \o FixSentenceBreaks(Tail(s))
    ELSE <<s[1]>> \o FixSentenceBreaks(Tail(s))

\* re.split(r'(?<=[.!?])\s+', text)
RECURSIVE SplitSentences(_)
SplitSentences(s) ==
    LET IsBreak(i) == s[i] \in Whitespace /\ s[i - 1] \in SentenceEnd
    IN  IF \E i \in 2..Len(s) : IsBreak(i)
        THEN LET b == CHOOSE i \in 2..Len(s) :
                          IsBreak(i) /\ \A j \in 2..(i - 1) : ~IsBreak(j)
                 e == CHOOSE k \in b..Len(s) :
                          /\ \A j \in b..k : s[j] \in Whitespace
                          /\ (k = Len(s) \/ s[k + 1] \notin Whitespace)
             IN  <<Take(s, b - 1)>> \o SplitSentences(Drop(s, e))
        ELSE <<s>>

\* the paragraph loop: for i in range(0, len(sentences), size), keeping the
\* paragraphs that are not the empty string
RECURSIVE Paragraphs(_, _)
Paragraphs(sentences, size) ==
    IF sentences = <<>> THEN <<>>
    ELSE LET n         == IF Len(sentences) < size THEN Len(sentences) ELSE size
             paragraph == Join(<<" ">>, Take(sentences, n))
         IN  (IF paragraph # <<>> THEN <<paragraph>> ELSE <<>>)
                 \o Paragraphs(Drop(sentences, n), size)

\* Variant: the whitespace runs are left as they are
CleanedTextNoCollapse(caption_texts) ==
    FixSentenceBreaks(Join(<<" ">>, caption_texts))

\* cleaned_text and sentences of format_captions, from the extracted texts
CleanedText(caption_texts) ==
    FixSentenceBreaks(CollapseWhitespace(Join(<<" ">>, caption_texts)))

Sentences(caption_texts) == SplitSentences(CleanedText(caption_texts))

\* Variant: paragraphs of 7 sentences, the upper end of the "5-7" of the comment
FormatTextOfSeven(caption_texts) ==
    Join(<<"\n", "\n">>, Paragraphs(Sentences(caption_texts), 7))

\* lines 148-156: split, group and join
FormatText(caption_texts) ==
    Join(<<"\n", "\n">>, Paragraphs(Sentences(caption_texts), PARAGRAPH_SIZE))

\* Variant: each segment is read by key or else by attribute, on its own
ExtractTextsPerSegment(segs) ==
    IF \A i \in 1..Len(segs) : HasKey(segs[i]) \/ HasAttr(segs[i])
    THEN [ok |-> TRUE, texts |-> [i \in 1..Len(segs) |-> segs[i].text]]
    ELSE [ok |-> FALSE, texts |-> <<>>]

\* the two list comprehensions: [ok, texts]; the first tries keys on every
\* segment, the second attributes on every segment
ExtractTexts(segs) ==
    IF \A i \in 1..Len(segs) : HasKey(segs[i])
    THEN [ok |-> TRUE, texts |-> [i \in 1..Len(segs) |-> segs[i].text]]
    ELSE IF \A i \in 1..Len(segs) : HasAttr(segs[i])
    THEN [ok |-> TRUE, texts |-> [i \in 1..Len(segs) |-> segs[i].text]]
    ELSE [ok |-> FALSE, texts |-> <<>>]

TypeErrorJoin == Exc("TypeError", "sequence item: expected str instance")

\* format_captions(caption_data): [ret, exc]; exc is None unless ' '.join
\* raises on a text that is not a str
format_captions(segs) ==
    IF segs = <<>> THEN [ret |-> <<>>, exc |-> None]
    ELSE LET ex == ExtractTexts(segs)
         IN  IF ~ex.ok THEN [ret |-> PLACEHOLDER, exc |-> None]
             ELSE IF \E i \in 1..Len(segs) : ex.texts[i].t # "str"
             THEN [ret |-> <<>>, exc |-> TypeErrorJoin]
             ELSE [ret |-> FormatText([i \in 1..Len(segs) |-> ex.texts[i].s]),
                   exc |-> None]

-----------------------------------------------------------------------------
(* POST /api/extract-captions: get_captions and extract_captions.          *)

\* What extract_captions returns: None, or the fetched list of segments
NoCaptions == [none |-> TRUE, segs |-> <<>>]
Captions(segs) == [none |-> FALSE, segs |-> segs]

\* A request body.  t is "absent" (nothing the framework parses as JSON),
\* "malformed", or the type of the JSON value; s holds a JSON string, elems
\* the members of a list or the keys of an object, val the value under 'url'.
Body(t, truthy, s, elems, val) ==
    [t |-> t, truthy |-> truthy, s |-> s, elems |-> elems, val |-> val]

URL_KEY == <<"u", "r", "l">>

\* request.get_json(): [ret, exc].  A request without a JSON body makes it
\* return None or raise, depending on the framework version (lenient); a
\* malformed body makes it raise.
get_json(body, lenient) ==
    IF body.t = "malformed" \/ (body.t = "absent" /\ ~lenient)
    THEN [ret |-> body, exc |-> Exc("BadRequest", "400 Bad Request")]
    ELSE [ret |-> body, exc |-> None]

\* not data
NotData(d) == d.t \in {"absent", "null"} \/ ~d.truthy

\* 'url' not in data: [ret, exc]
UrlNotIn(d) ==
    IF d.t \in {"int", "bool"}
    THEN [ret |-> FALSE, exc |-> Exc("TypeError", "argument is not iterable")]
    ELSE IF d.t = "str" THEN [ret |-> ~Contains(d.s, URL_KEY), exc |-> None]
    ELSE [ret |-> URL_KEY \notin d.elems, exc |-> None]

\* data['url']: [ret, exc]
UrlItem(d) ==
    IF d.t = "dict" THEN [ret |-> d.val, exc |-> None]
    ELSE [ret |-> None, exc |-> Exc("TypeError", "indices must be integers")]

\* The JSON bodies get_captions answers with
NoResponse ==
    [status |-> 0, keys |-> {}, error |-> "", message |-> <<>>, success |-> FALSE,
     captions |-> <<>>, videoUrl |-> None, length |-> 0]

ErrorResponse(status, error, message) ==
    [status |-> status, keys |-> {"error", "message"}, error |-> error,
     message |-> message, success |-> FALSE, captions |-> <<>>, videoUrl |-> None,
     length |-> 0]

MissingUrl ==
    ErrorResponse(400, "Missing YouTube URL",
                  <<"Please provide a valid YouTube URL in the request body">>)
InvalidUrl ==
    ErrorResponse(400, "Invalid YouTube URL",
                  <<"The provided URL does not appear to be a valid YouTube video URL">>)
CaptionsUnavailable ==
    ErrorResponse(404, "Captions unavailable",
                  <<"No captions/subtitles available for this video or they are disabled">>)

\* the except clause of get_captions: the message ends with str(e)
ServerError(e) ==
    ErrorResponse(500, "Server error",
                  <<"An error occurred while processing the captions: ", e.text>>)

\* Variant: length counts the characters of the URL
SuccessResponseUrlLength(u, formatted_text) ==
    [status |-> 200, keys |-> {"success", "captions", "videoUrl", "length"},
     error |-> "", message |-> <<>>, success |-> TRUE, captions |-> formatted_text,
     videoUrl |-> u, length |-> Len(u.s)]

\* lines 72-77: the success body
SuccessResponse(u, formatted_text) ==
    [status |-> 200, keys |-> {"success", "captions", "videoUrl", "length"},
     error |-> "", message |-> <<>>, success |-> TRUE, captions |-> formatted_text,
     videoUrl |-> u, length |-> Len(formatted_text)]

\* Variant: raw_captions is None
NotRawCaptionsNoneOnly(raw) == raw.none

\* not raw_captions
NotRawCaptions(raw) == raw.none \/ raw.segs = <<>>

\* Variant: only the three named conditions are caught, anything else goes on
\* to the caller
ExceptClausesNamedOnly(e) ==
    IF e.type \in {"NoTranscriptFound", "TranscriptsDisabled", "VideoUnavailable"}
    THEN [ret |-> NoCaptions, exc |-> None]
    ELSE [ret |-> NoCaptions, exc |-> e]

\* The except clauses of extract_captions: what the function does with an
\* exception that leaves its try body.  Every clause returns None.
ExceptClauses(e) ==
    IF e.type \in {"NoTranscriptFound", "TranscriptsDisabled", "VideoUnavailable"}
    THEN [ret |-> NoCaptions, exc |-> None]
    ELSE [ret |-> NoCaptions, exc |-> None]

\* Variant: a failed 'en' lookup is tried again
AfterFindEnRetry(ok) == IF ok THEN "fetch" ELSE "find_en"

\* The bare except around the 'en' lookup: where extract_captions goes next
AfterFindEn(ok) == IF ok THEN "fetch" ELSE "find_fallback"

\* get_captions, lines 41-57: parse the body, find and validate the URL
Answer(r) ==
    /\ response' = r
    /\ pc' = "done"

Receive(body, lenient) ==
    /\ pc = "idle"
    /\ data' = body
    /\ LET j    == get_json(body, lenient)
           nin  == UrlNotIn(body)
           item == UrlItem(body)
           v    == validate_youtube_url(item.ret)
       IN  IF j.exc # None THEN Answer(ServerError(j.exc)) /\ UNCHANGED url
           ELSE IF NotData(body) THEN Answer(MissingUrl) /\ UNCHANGED url
           ELSE IF nin.exc # None THEN Answer(ServerError(nin.exc)) /\ UNCHANGED url
           ELSE IF nin.ret THEN Answer(MissingUrl) /\ UNCHANGED url
           ELSE IF item.exc # None THEN Answer(ServerError(item.exc)) /\ UNCHANGED url
           ELSE /\ url' = item.ret
                /\ IF v.exc # None THEN Answer(ServerError(v.exc))
                   ELSE IF ~v.ret THEN Answer(InvalidUrl)
                   ELSE pc' = "extract" /\ UNCHANGED response
    /\ UNCHANGED <<video_id, transcript, calls, raised, raw_captions, caption_data, result>>

\* extract_captions, lines 71-75
ExtractVideoId ==
    /\ pc = "extract"
    /\ video_id' = extract_video_id(url.s)
    /\ IF video_id'.truthy
       THEN pc' = "list" /\ UNCHANGED raw_captions
       ELSE pc' = "respond" /\ raw_captions' = NoCaptions
    /\ UNCHANGED <<data, url, transcript, calls, raised, response, caption_data, result>>

\* an exception leaves the try body of extract_captions at step `at`
Leave(at, e) ==
    /\ raised' = Append(raised, [at |-> at, exc |-> e])
    /\ LET h == ExceptClauses(e)
       IN  IF h.exc = None
           THEN raw_captions' = h.ret /\ pc' = "respond" /\ UNCHANGED response
           ELSE UNCHANGED raw_captions /\ Answer(ServerError(h.exc))

\* line 80: YouTubeTranscriptApi.list_transcripts(video_id)
ListTranscripts(outcome) ==
    /\ pc = "list"
    /\ calls' = Append(calls, "list_transcripts")
    /\ IF outcome = None
       THEN pc' = "find_en" /\ UNCHANGED <<raised, raw_captions, response>>
       ELSE Leave("list", outcome)
    /\ UNCHANGED <<data, url, video_id, transcript, caption_data, result>>

\* lines 83-85: transcript_list.find_transcript(['en']) under a bare except
FindEn(outcome) ==
    /\ pc = "find_en"
    /\ calls' = Append(calls, "find_transcript_en")
    /\ transcript' = IF outcome = None THEN "en" ELSE transcript
    /\ raised' = IF outcome = None THEN raised
                 ELSE Append(raised, [at |-> "find_en", exc |-> outcome])
    /\ pc' = AfterFindEn(outcome = None)
    /\ UNCHANGED <<data, url, video_id, raw_captions, response, caption_data, result>>

\* line 87: transcript_list.find_transcript(['en-US', 'en-GB'])
FindFallback(outcome) ==
    /\ pc = "find_fallback"
    /\ calls' = Append(calls, "find_transcript_en-US_en-GB")
    /\ IF outcome = None
       THEN /\ transcript' = "en-US/en-GB"
            /\ pc' = "fetch"
            /\ UNCHANGED <<raised, raw_captions, response>>
       ELSE Leave("find_fallback", outcome) /\ UNCHANGED transcript
    /\ UNCHANGED <<data, url, video_id, caption_data, result>>

\* lines 90-91: transcript.fetch(), returned as it is
Fetch(outcome, segs) ==
    /\ pc = "fetch"
    /\ calls' = Append(calls, "fetch")
    /\ IF outcome = None
       THEN /\ raw_captions' = Captions(segs)
            /\ pc' = "respond"
            /\ UNCHANGED <<raised, response>>
       ELSE Leave("fetch", outcome)
    /\ UNCHANGED <<data, url, video_id, transcript, caption_data, result>>

\* get_captions, lines 62-84
Respond ==
    /\ pc = "respond"
    /\ IF NotRawCaptions(raw_captions)
       THEN Answer(CaptionsUnavailable) /\ UNCHANGED <<calls, raised>>
       ELSE LET f == format_captions(raw_captions.segs)
            IN  /\ calls' = Append(calls, "format_captions")
                /\ IF f.exc # None
                   THEN /\ raised' = Append(raised, [at |-> "format", exc |-> f.exc])
                        /\ Answer(ServerError(f.exc))
                   ELSE /\ UNCHANGED raised
                        /\ Answer(SuccessResponse(url, f.ret))
    /\ UNCHANGED <<data, url, video_id, transcript, raw_captions, caption_data, result>>

-----------------------------------------------------------------------------
(* The request handler as a state machine: one request, from its arrival   *)
(* to the response, every library call being a step with every outcome.    *)

NoBody == Body("absent", FALSE, <<>>, {}, None)

\* The exceptions a transcript-library call can raise: the three conditions
\* extract_captions names, and one it does not
LibraryExceptions ==
    {Exc("NoTranscriptFound", "no transcript found"),
     Exc("TranscriptsDisabled", "transcripts disabled"),
     Exc("VideoUnavailable", "video unavailable"),
     Exc("ConnectionError", "connection reset by peer")}

\* None stands for a call that returns
Outcomes == {None} \cup LibraryExceptions

WATCH_URL == <<"h", "t", "t", "p", "s", ":", "/", "/", "w", "w", "w", ".", "y", "o", "u", "t", "u", "b", "e", ".", "c", "o", "m", "/", "w", "a", "t", "c", "h", "?", "v", "=", "a", "b", "c", "1", "2", "3">>
SHORT_URL == <<"h", "t", "t", "p", "s", ":", "/", "/", "y", "o", "u", "t", "u", ".", "b", "e", "/", "a", "b", "c", "1", "2", "3">>
PLAYLIST_URL == <<"h", "t", "t", "p", "s", ":", "/", "/", "w", "w", "w", ".", "y", "o", "u", "t", "u", "b", "e", ".", "c", "o", "m", "/", "w", "a", "t", "c", "h", "?", "v", "=", "a", "b", "c", "&", "l", "i", "s", "t", "=", "P", "L", "1">>
VIMEO_URL == <<"h", "t", "t", "p", "s", ":", "/", "/", "v", "i", "m", "e", "o", ".", "c", "o", "m", "/", "1", "2", "3">>

\* values found under 'url'
UrlValues ==
    {PyStr(WATCH_URL), PyStr(SHORT_URL), PyStr(PLAYLIST_URL), PyStr(VIMEO_URL), PyStr(<<>>),
     None, PyInt(0), PyInt(5), PyList(FALSE), PyList(TRUE)}

RequestBodies ==
    {NoBody,
     Body("malformed", FALSE, <<>>, {}, None),
     Body("null", FALSE, <<>>, {}, None),
     Body("int", FALSE, <<>>, {}, None),
     Body("int", TRUE, <<>>, {}, None),
     Body("bool", TRUE, <<>>, {}, None),
     Body("str", FALSE, <<>>, {}, None),
     Body("str", TRUE, <<"a", "b", "c">>, {}, None),
     Body("str", TRUE, <<"m", "y", " ", "u", "r", "l">>, {}, None),
     Body("list", FALSE, <<>>, {}, None),
     Body("list", TRUE, <<>>, {<<"a">>}, None),
     Body("list", TRUE, <<>>, {URL_KEY}, None),
     Body("dict", FALSE, <<>>, {}, None),
     Body("dict", TRUE, <<>>, {<<"l", "i", "n", "k">>}, None)}
    \cup {Body("dict", TRUE, <<>>, {URL_KEY}, v) : v \in UrlValues}

\* what transcript.fetch() may return
FetchResults ==
    {<<>>,
     <<Segment("key", PyStr(<<"H", "i", ".">>))>>,
     <<Segment("attr", PyStr(<<"O", "n", "e", ".", "T", "w", "o">>)), Segment("attr", PyStr(<<"t", "h", "r", "e", "e", ".", "\n", "F", "o", "u", "r", "!">>))>>,
     <<Segment("key", PyStr(<<"a">>)), Segment("attr", PyStr(<<"b">>))>>,
     <<Segment("neither", PyStr(<<"a">>))>>,
     <<Segment("key", PyStr(<<"a">>)), Segment("key", None)>>}

Init ==
    /\ pc = "idle"
    /\ data = NoBody
    /\ url = None
    /\ video_id = None
    /\ transcript = "none"
    /\ calls = <<>>
    /\ raised = <<>>
    /\ raw_captions = NoCaptions
    /\ response = NoResponse
    /\ caption_data = <<>>
    /\ result = None

Next ==
    \/ \E body \in RequestBodies, lenient \in BOOLEAN : Receive(body, lenient)
    \/ ExtractVideoId
    \/ \E outcome \in Outcomes : ListTranscripts(outcome)
    \/ \E outcome \in Outcomes : FindEn(outcome)
    \/ \E outcome \in Outcomes : FindFallback(outcome)
    \/ \E outcome \in Outcomes, segs \in FetchResults : Fetch(outcome, segs)
    \/ Respond

Spec == Init /\ [][Next]_vars

-----------------------------------------------------------------------------
(* The URL functions on their own: every URL assembled from the pieces     *)
(* below is validated, then its video id is extracted.                     *)

Schemes == {<<"h", "t", "t", "p", ":", "/", "/">>, <<"h", "t", "t", "p", "s", ":", "/", "/">>, <<"f", "t", "p", ":", "/", "/">>, <<>>}
Subdomains == {<<>>, <<"w", "w", "w", ".">>, <<"m", ".">>}
Hosts == {<<"y", "o", "u", "t", "u", "b", "e", ".", "c", "o", "m">>, <<"y", "o", "u", "t", "u", ".", "b", "e">>, <<"v", "i", "m", "e", "o", ".", "c", "o", "m">>, <<"n", "o", "t", "y", "o", "u", "t", "u", ".", "b", "e">>,
          <<"y", "o", "u", "t", "u", "b", "e", ".", "c", "o", "m", ".", "e", "v", "i", "l", ".", "i", "o">>, <<"y", "o", "u", "t", "u", "b", "e", "X", "c", "o", "m">>}
Paths == {<<"/", "w", "a", "t", "c", "h", "?", "v", "=">>, <<"/">>, <<"/", "w", "a", "t", "c", "h", "?", "t", "=", "5", "&", "v", "=">>, <<"/", "p", "l", "a", "y", "l", "i", "s", "t", "?", "l", "i", "s", "t", "=">>, <<>>}
Ids == {<<>>, <<"a", "b", "c", "1", "2", "3">>, <<"X", "-", "_", "z">>}
Trailers == {<<>>, <<"&", "l", "i", "s", "t", "=", "P", "L", "1">>, <<" ", "x">>, <<"/", "x">>, <<"#", "f">>}

UrlInputs ==
    {<<>>} \cup
    {sc \o sd \o h \o p \o i \o t :
        sc \in Schemes, sd \in Subdomains, h \in Hosts, p \in Paths, i \in Ids,
        t \in Trailers}

InitUrl ==
    /\ pc = "url"
    /\ url \in {PyStr(u) : u \in UrlInputs}
    /\ data = NoBody
    /\ video_id = None
    /\ transcript = "none"
    /\ calls = <<>>
    /\ raised = <<>>
    /\ raw_captions = NoCaptions
    /\ response = NoResponse
    /\ caption_data = <<>>
    /\ result = None

Validate ==
    /\ pc = "url"
    /\ result' = validate_youtube_url(url)
    /\ pc' = "validated"
    /\ UNCHANGED <<data, url, video_id, transcript, calls, raised, raw_captions,
                   response, caption_data>>

ExtractId ==
    /\ pc = "validated"
    /\ video_id' = extract_video_id(url.s)
    /\ pc' = "extracted"
    /\ UNCHANGED <<data, url, transcript, calls, raised, raw_captions, response,
                   caption_data, result>>

NextUrl == Validate \/ ExtractId

SpecUrl == InitUrl /\ [][NextUrl]_vars

-----------------------------------------------------------------------------
(* The formatter on its own: MaxRepeat or fewer one-sentence segments      *)
(* followed by MaxTail or fewer segments of any text and shape.            *)

MaxRepeat == 12
MaxTail == 2

ONE_SENTENCE == Segment("key", PyStr(<<"S", "o", ".">>))

Texts == {<<>>, <<"H", "i", ".">>, <<"a", " ", "b">>, <<"o", "k", "!">>, <<"x", ".", "Y">>, <<" ", " ">>, <<"n", "o", "?", "\n">>, <<"e", "n", "d", ".", " ">>}

SegmentChoices ==
    {Segment("key", PyStr(t)) : t \in Texts}
    \cup {Segment(sh, PyStr(<<"H", "i", ".">>)) : sh \in {"key", "attr", "both", "neither"}}
    \cup {Segment("key", None)}

TailsOf(n) == UNION {[1..k -> SegmentChoices] : k \in 0..n}

FormatInputs ==
    {[i \in 1..k |-> ONE_SENTENCE] \o tail : k \in 0..MaxRepeat, tail \in TailsOf(MaxTail)}

InitFormat ==
    /\ pc = "format"
    /\ caption_data \in FormatInputs
    /\ data = NoBody
    /\ url = None
    /\ video_id = None
    /\ transcript = "none"
    /\ calls = <<>>
    /\ raised = <<>>
    /\ raw_captions = NoCaptions
    /\ response = NoResponse
    /\ result = None

Format ==
    /\ pc = "format"
    /\ result' = format_captions(caption_data)
    /\ pc' = "formatted"
    /\ UNCHANGED <<data, url, video_id, transcript, calls, raised, raw_captions,
                   response, caption_data>>

NextFormat == Format

SpecFormat == InitFormat /\ [][NextFormat]_vars

-----------------------------------------------------------------------------
(* Properties of the request handler (specification Spec).                 *)

NamedConditions == {"NoTranscriptFound", "TranscriptsDisabled", "VideoUnavailable"}

\* the positions of `raised` at which an exception left the try body of
\* extract_captions (one raised by the 'en' lookup never does)
Escaped == {i \in DOMAIN raised : raised[i].at \in {"list", "find_fallback", "fetch"}}

FormatFailures == {i \in DOMAIN raised : raised[i].at = "format"}

Called(c) == \E i \in DOMAIN calls : calls[i] = c

\* the request carries a URL the validator accepts
UsableUrl(d) ==
    /\ d.t = "dict"
    /\ URL_KEY \in d.elems
    /\ d.val.t = "str"
    /\ (MatchWatchPattern(d.val.s) \/ MatchShortPattern(d.val.s))

\* C1: every request whose body has no usable URL (no body, a body that is
\* not a JSON object, an object without 'url', a 'url' value the validator
\* does not accept, be it empty or not a string) is answered 400 with an
\* error/message pair, never 200, 404 or 500.
C1_NoUsableUrlIs400 ==
    (pc = "done" /\ ~UsableUrl(data))
        => (response.status = 400 /\ response.keys = {"error", "message"})

\* C2, as stated: any exception other than the three named conditions,
\* raised during the transcript fetch or during formatting, produces a 500
\* whose message contains the exception text.
C2_UnexpectedIs500 ==
    pc = "done" =>
        \A i \in DOMAIN raised :
            raised[i].exc.type \notin NamedConditions
                => (response.status = 500 /\ response.message[2] = raised[i].exc.text)

\* C2, amended: an exception raised by format_captions produces a 500 whose
\* message ends with the exception text; an exception raised during the
\* transcript fetch never does: one that leaves extract_captions' try body
\* (from list_transcripts, the fallback lookup or fetch) is answered 404
\* 'Captions unavailable' whatever its class, and a 500 for a validated URL
\* always comes from format_captions.
C2_OnlyFormatFailureIs500 ==
    (pc = "done" /\ calls # <<>>) =>
        /\ \A i \in FormatFailures :
              response = ErrorResponse(500, "Server error",
                  <<"An error occurred while processing the captions: ",
                    raised[i].exc.text>>)
        /\ \A i \in Escaped : response = CaptionsUnavailable
        /\ response.status = 500 => FormatFailures # {}

C2_Witness ==
    /\ pc = "done"
    /\ response.status = 500
    /\ FormatFailures # {}
    /\ \E i \in DOMAIN raised :
          raised[i].at = "find_en" /\ raised[i].exc.type \notin NamedConditions

C4_SuccessBody ==
    response.status = 200 =>
        /\ response.keys = {"success", "captions", "videoUrl", "length"}
        /\ response.success
        /\ response.captions = format_captions(raw_captions.segs).ret
        /\ format_captions(raw_captions.segs).exc = None
        /\ response.videoUrl = data.val
        /\ response.length = Len(response.captions)
        /\ UsableUrl(data)
        /\ Called("fetch")
        /\ ~raw_captions.none
        /\ raw_captions.segs # <<>>

C4_Witness ==
    /\ response.status = 200
    /\ response.videoUrl = PyStr(PLAYLIST_URL)
    /\ response.captions = <<"O", "n", "e", ".", " ", "T", "w", "o", " ", "t", "h", "r", "e", "e", ".", " ", "F", "o", "u", "r", "!">>
    /\ response.length = 21

\* the library calls of extract_captions, in order
LibraryCalls == SelectSeq(calls, LAMBDA c : c # "format_captions")

IsPrefix(s, t) == Len(s) <= Len(t) /\ \A i \in 1..Len(s) : s[i] = t[i]

EnFailed == \E i \in DOMAIN raised : raised[i].at = "find_en"
FallbackFailed == \E i \in DOMAIN raised : raised[i].at = "find_fallback"

-----------------------------------------------------------------------------
(* Properties of the URL functions (specification SpecUrl).                *)

\* everything a URL of one of the two accepted shapes has before its id
AcceptedHeads ==
    {sc \o sd \o hp :
        sc \in {<<"h", "t", "t", "p", ":", "/", "/">>, <<"h", "t", "t", "p", "s", ":", "/", "/">>},
        sd \in {<<>>, <<"w", "w", "w", ".">>},
        hp \in {<<"y", "o", "u", "t", "u", "b", "e", ".", "c", "o", "m", "/", "w", "a", "t", "c", "h", "?", "v", "=">>, <<"y", "o", "u", "t", "u", ".", "b", "e", "/">>}}

\* s is an accepted head followed by one or more id characters, and nothing else
IsExactForm(s) ==
    \E h \in AcceptedHeads :
        /\ HasAt(s, 0, h)
        /\ Len(s) > Len(h)
        /\ \A i \in (Len(h) + 1)..Len(s) : s[i] \in IdChar

\* s begins with an accepted head followed by at least one id character
StartsWithForm(s) ==
    \E h \in AcceptedHeads :
        /\ HasAt(s, 0, h)
        /\ Len(s) > Len(h)
        /\ s[Len(h) + 1] \in IdChar

\* C5, as stated: validate_youtube_url returns true exactly for the strings
\* http(s)://[www.]youtube.com/watch?v=<id> and http(s)://[www.]youtu.be/<id>,
\* <id> being one or more word/hyphen characters, and false for every other
\* string: the empty string, a watch URL with playlist parameters or other
\* characters after the id, a URL of another host.
C5_ExactForm ==
    pc = "validated" => (result.ret <=> IsExactForm(url.s))

\* C5, amended: validate_youtube_url returns true exactly for the strings
\* that begin with one of the two shapes, whatever follows the id, and false
\* for every other string (the empty string and other hosts included).
C5_PrefixForm ==
    pc = "validated" =>
        (result.exc = None /\ (result.ret <=> StartsWithForm(url.s)))

C5_Witness ==
    /\ pc = "validated"
    /\ url.s = WATCH_URL \o <<"&", "l", "i", "s", "t", "=", "P", "L", "1">>
    /\ result.ret

\* the host of netloc is name or a subdomain of it
HostIs(netloc, name) ==
    \/ netloc = name
    \/ /\ Len(netloc) > Len(name)
       /\ HasAt(netloc, Len(netloc) - Len(name) - 1, <<".">> \o name)

\* C6: extract_video_id returns the path without its leading slash when the
\* host is youtu.be, the first value of the 'v' query parameter when the host
\* is youtube.com, and None for every URL whose host is neither (a host that
\* only contains one of the names included) or whose youtube.com query has
\* no 'v'.
C6_HostDecides ==
    pc = "extracted" =>
        LET parsed == urlparse(url.s)
            v      == parse_qs(parsed.query, <<"v">>)
        IN  IF HostIs(parsed.netloc, <<"y", "o", "u", "t", "u", ".", "b", "e">>)
            THEN video_id = PyStr(LStrip(parsed.path, "/"))
            ELSE IF HostIs(parsed.netloc, <<"y", "o", "u", "t", "u", "b", "e", ".", "c", "o", "m">>) /\ v # <<>>
            THEN video_id = PyStr(v[1])
            ELSE video_id = None

-----------------------------------------------------------------------------
(* Properties of format_captions (specification SpecFormat).               *)

\* the texts of the segments, when every one is a str
TextsOf(segs) == [i \in 1..Len(segs) |-> segs[i].text.s]
AllStr(segs) == \A i \in 1..Len(segs) : segs[i].text.t = "str"

Ceil(n, d) == (n + d - 1) \div d
Min(a, b) == IF a < b THEN a ELSE b

\* the k-th group of 5 consecutive sentences
GroupOfFive(S, k) == SubSeq(S, 5 * (k - 1) + 1, Min(5 * k, Len(S)))

\* the first np groups of 5, each joined by single spaces, joined by blank lines
JoinedGroups(S, np) ==
    Join(<<"\n", "\n">>, [k \in 1..np |-> Join(<<" ">>, GroupOfFive(S, k))])

NewlineCount(s) == Len(SelectSeq(s, LAMBDA c : c = "\n"))

\* the text was extracted and formatted
Formatted ==
    /\ pc = "formatted"
    /\ caption_data # <<>>
    /\ AllStr(caption_data)
    /\ (\A i \in DOMAIN caption_data : HasKey(caption_data[i]))
          \/ (\A i \in DOMAIN caption_data : HasAttr(caption_data[i]))

TwelveSentences == [i \in 1..12 |-> ONE_SENTENCE]

\* C8, as stated: the n sentences the split gives are grouped 5 by 5 in
\* order, into ceil(n/5) paragraphs joined by a blank line, the sentences of
\* a paragraph joined by single spaces.
C8_CeilParagraphs ==
    Formatted =>
        LET S == Sentences(TextsOf(caption_data))
        IN  result.ret = JoinedGroups(S, Ceil(Len(S), 5))

\* C8, amended: as stated, except that a group which is one empty sentence
\* gives no paragraph.  It can only be the last group: the split leaves an
\* empty last sentence when the cleaned text is empty or ends with '.', '!'
\* or '?' followed by whitespace.  12 one-sentence segments give paragraphs
\* of 5, 5 and 2 sentences, and no segment gives the empty string.
C8_ParagraphsOfFive ==
    /\ Formatted =>
          LET S  == Sentences(TextsOf(caption_data))
              n  == Len(S)
              np == IF n % 5 = 1 /\ S[n] = <<>> THEN Ceil(n, 5) - 1 ELSE Ceil(n, 5)
          IN  /\ result.ret = JoinedGroups(S, np)
              /\ \A i \in 1..(n - 1) : S[i] # <<>>
              /\ NewlineCount(result.ret) = IF np = 0 THEN 0 ELSE 2 * (np - 1)
    /\ (pc = "formatted" /\ caption_data = TwelveSentences) =>
          result.ret = <<"S", "o", ".", " ", "S", "o", ".", " ", "S", "o", ".", " ", "S", "o", ".", " ", "S", "o", ".", "\n", "\n", "S", "o", ".", " ", "S", "o", ".", " ", "S", "o", ".", " ", "S", "o", ".", " ", "S", "o", ".", "\n", "\n", "S", "o", ".", " ", "S", "o", ".">>
    /\ (pc = "formatted" /\ caption_data = <<>>) => result.ret = <<>>

C8_Witness ==
    /\ pc = "formatted"
    /\ caption_data = TwelveSentences
    /\ NewlineCount(result.ret) = 4

KeyOnly(seg) == HasKey(seg) /\ ~HasAttr(seg)
AttrOnly(seg) == HasAttr(seg) /\ ~HasKey(seg)

StripWhitespace(s) == SelectSeq(s, LAMBDA c : c \notin Whitespace)

RECURSIVE Concat(_)
Concat(parts) == IF parts = <<>> THEN <<>> ELSE parts[1] \o Concat(Tail(parts))

\* C10: format_captions only changes whitespace: with the whitespace
\* removed, its output is the segment texts concatenated in order with the
\* whitespace removed; and the output never has two spaces in a row.
C10_OnlyWhitespaceChanges ==
    Formatted =>
        /\ StripWhitespace(result.ret) = StripWhitespace(Concat(TextsOf(caption_data)))
        /\ ~Contains(result.ret, <<" ", " ">>)

C10_Witness ==
    /\ Formatted
    /\ Contains(result.ret, <<".", " ", "Y">>)
    /\ Contains(result.ret, <<"\n", "\n">>)
    /\ \E i \in DOMAIN caption_data : Contains(caption_data[i].text.s, <<" ", " ">>)

=============================================================================
